---- MODULE Spec2Model ----
(***************************************************************************)
(* A model of the two command-line scripts of one-mcp's skill template:    *)
(*   executor.py           - Tool Invoker: one tools/call, result printed  *)
(*   refresh_tool_docs.py  - Doc Refresher: tools/list per server, one     *)
(*                           Markdown file per server                      *)
(* Both hold a copy of the same MCPClient (session handshake, then RPC).   *)
(*                                                                         *)
(* Python values: a dict is a function over its keys, a list a sequence,   *)
(* None the value None below, an exception the outcome Raise(name).        *)
(***************************************************************************)
EXTENDS Integers, Sequences, FiniteSets, TLC

VARIABLES
    script,         \* which script's code runs: "executor" or "refresh"
    client,         \* the MCPClient object: [base_url, session_id]
    wire,           \* every HTTP exchange so far: <<[req, resp], ...>>
    ops,            \* the client's public calls so far and their outcomes
    argv,           \* sys.argv of the process
    config,         \* mcp-config.json: [order: server names, servers: name -> {url}]
    stub,           \* the servers' behaviour: url -> [init: response, rpc: response]
    HAS_YAML,       \* whether `import yaml` succeeded
    pc,             \* position of the script's main block
    todo,           \* the servers the for loop has still to visit
    stdout,         \* the lines printed so far
    files,          \* the tools directory: file name -> list of lines
    stderr,         \* the uncaught exception the interpreter reported, if any
    writes,         \* the paths write_text() wrote in this run, in order
    locals,         \* executor.py's main block: [params, mcp_url] once bound
    exit_code,      \* the process's exit status, None while it runs
    input_schema,   \* argument of convert_schema_to_yaml_params
    yaml_params     \* its return value

clientVars == <<script, client, wire, ops>>
mainVars == <<argv, config, stub, HAS_YAML, pc, todo, stdout, files, stderr, writes,
              locals, exit_code>>
convVars == <<input_schema, yaml_params>>
vars == <<script, client, wire, ops, argv, config, stub, HAS_YAML, pc, todo,
          stdout, files, stderr, writes, locals, exit_code, input_schema, yaml_params>>

-----------------------------------------------------------------------------
(* Python values *)

None == "<None>"

EmptyDict == [k \in {} |-> None]

Dict1(k, v) == [x \in {k} |-> v]

\* d.get(k, dflt)
DictGet(d, k, dflt) == IF k \in DOMAIN d THEN d[k] ELSE dflt

\* d.update(e), as a value
DictUpdate(d, e) ==
    [k \in (DOMAIN d) \cup (DOMAIN e) |-> IF k \in DOMAIN e THEN e[k] ELSE d[k]]

\* Python truth of an optional string: None and "" are false
Truthy(v) == v # None /\ v # ""

Raise(e) == [raised |-> TRUE, exc |-> e]

Return(v) == [raised |-> FALSE, value |-> v]

SessionHeader == "Mcp-Session-Id"

-----------------------------------------------------------------------------
(* The HTTP server, as the client sees it.  A response either is a fault   *)
(* (urlopen or json.loads raises) or carries headers and a decoded body.   *)

\* The faults are "HTTPError" (an error status), "URLError" (no connection) and
\* "JSONDecodeError" (a body that is not JSON).

Fault(f) == [fault |-> f, headers |-> EmptyDict, body |-> EmptyDict]

Ok(h, b) == [fault |-> None, headers |-> h, body |-> b]

-----------------------------------------------------------------------------
(* MCPClient *)

MCPClient(base_url) == [base_url |-> base_url, session_id |-> None]

_post(self, data, headers, resp) ==
    LET base == Dict1("Content-Type", "application/json")
        req_headers == IF DOMAIN headers # {} THEN DictUpdate(base, headers) ELSE base
        request == [url |-> self.base_url, method |-> "POST",
                    headers |-> req_headers, data |-> data]
    IN  [sent |-> <<[req |-> request, resp |-> resp]>>,
         out  |-> IF resp.fault # None
                  THEN Raise(resp.fault)
                  ELSE Return([body |-> resp.body, headers |-> resp.headers])]

ClientInfoName(s) == IF s = "executor" THEN "mcp-executor" ELSE "refresh-tool-docs"

InitializeData(s) ==
    [jsonrpc |-> "2.0", id |-> 1, method |-> "initialize",
     params |-> [protocolVersion |-> "2024-11-05",
                 capabilities |-> EmptyDict,
                 clientInfo |-> [name |-> ClientInfoName(s), version |-> "1.0.0"]]]

\* A faulty variant, for comparison: the missing header is not detected.
initialize_unchecked(self, s, resp) ==
    LET p == _post(self, InitializeData(s), EmptyDict, resp)
    IN  IF p.out.raised
        THEN [self |-> self, sent |-> p.sent, out |-> p.out]
        ELSE [self |-> [self EXCEPT !.session_id =
                            DictGet(p.out.value.headers, SessionHeader, None)],
              sent |-> p.sent,
              out  |-> Return(p.out.value.body)]

\* initialize(): the result is the client after the call, the exchanges made
\* and the outcome (the body returned, or the exception raised).
initialize(self, s, resp) ==
    LET p == _post(self, InitializeData(s), EmptyDict, resp)
    IN  IF p.out.raised
        THEN [self |-> self, sent |-> p.sent, out |-> p.out]
        ELSE LET sid == DictGet(p.out.value.headers, SessionHeader, None)
             IN  [self |-> [self EXCEPT !.session_id = sid],
                  sent |-> p.sent,
                  out  |-> IF ~Truthy(sid)
                           THEN Raise("No session ID in response")
                           ELSE Return(p.out.value.body)]

\* A faulty variant, for comparison: the handshake is made whether or not a session id is held.
LazyInitialize_always(self, s, resp) == initialize(self, s, resp)

\* `if not self.session_id: self.initialize()`
LazyInitialize(self, s, resp) ==
    IF ~Truthy(self.session_id)
    THEN initialize(self, s, resp)
    ELSE [self |-> self, sent |-> <<>>, out |-> Return(EmptyDict)]

CallData(tool_name, params) ==
    [jsonrpc |-> "2.0", id |-> 2, method |-> "tools/call",
     params |-> [name |-> tool_name, arguments |-> params]]

\* A faulty variant, for comparison: the handshake is repeated on every call.
call_tool_reinit(self, tool_name, params, r1, r2) ==
    LET init == initialize(self, "executor", r1)
    IN  IF init.out.raised
        THEN init
        ELSE LET p == _post(init.self, CallData(tool_name, params),
                            Dict1(SessionHeader, init.self.session_id), r2)
             IN  [self |-> init.self,
                  sent |-> init.sent \o p.sent,
                  out  |-> IF p.out.raised THEN p.out
                           ELSE Return(p.out.value.body)]

\* A faulty variant, for comparison: no lazy handshake.
call_tool_noinit(self, tool_name, params, r1, r2) ==
    LET p == _post(self, CallData(tool_name, params),
                   Dict1(SessionHeader, self.session_id), r2)
    IN  [self |-> self,
         sent |-> p.sent,
         out  |-> IF p.out.raised THEN p.out ELSE Return(p.out.value.body)]

\* executor.py call_tool(): r1 answers the lazy initialize (if one is sent),
\* r2 the tools/call request.
call_tool(self, tool_name, params, r1, r2) ==
    LET init == LazyInitialize(self, "executor", r1)
    IN  IF init.out.raised
        THEN init
        ELSE LET p == _post(init.self, CallData(tool_name, params),
                            Dict1(SessionHeader, init.self.session_id), r2)
             IN  [self |-> init.self,
                  sent |-> init.sent \o p.sent,
                  out  |-> IF p.out.raised THEN p.out
                           ELSE Return(p.out.value.body)]

ListData ==
    [jsonrpc |-> "2.0", id |-> 2, method |-> "tools/list", params |-> EmptyDict]

\* A faulty variant, for comparison: an error field in the listing is not raised.
list_tools_lenient(self, r1, r2) ==
    LET init == LazyInitialize(self, "refresh", r1)
    IN  IF init.out.raised
        THEN init
        ELSE LET p == _post(init.self, ListData,
                            Dict1(SessionHeader, init.self.session_id), r2)
             IN  [self |-> init.self,
                  sent |-> init.sent \o p.sent,
                  out  |-> IF p.out.raised THEN p.out
                           ELSE Return(DictGet(DictGet(p.out.value.body, "result", EmptyDict),
                                               "tools", <<>>))]

\* refresh_tool_docs.py list_tools()
list_tools(self, r1, r2) ==
    LET init == LazyInitialize(self, "refresh", r1)
    IN  IF init.out.raised
        THEN init
        ELSE LET p == _post(init.self, ListData,
                            Dict1(SessionHeader, init.self.session_id), r2)
             IN  [self |-> init.self,
                  sent |-> init.sent \o p.sent,
                  out  |-> IF p.out.raised THEN p.out
                           ELSE IF "error" \in DOMAIN p.out.value.body
                           THEN Raise("MCP error")
                           ELSE Return(DictGet(DictGet(p.out.value.body, "result", EmptyDict),
                                               "tools", <<>>))]

-----------------------------------------------------------------------------
(* Bounds *)

\* public calls made on one client object
MaxOps == 3

\* tools in one tools/list answer
MaxTools == 2

\* servers in mcp-config.json
MaxServers == 2

\* properties of one input schema
MaxProps == 2

-----------------------------------------------------------------------------
(* What a server may answer *)

SessionIds == {"sid-A", "sid-B"}

InitHeaders ==
    {EmptyDict} \cup {Dict1(SessionHeader, v) : v \in SessionIds \cup {""}}

InitBody == [result |-> [protocolVersion |-> "2024-11-05"]]

InitResponses ==
    {Fault("HTTPError")} \cup {Ok(h, InitBody) : h \in InitHeaders}

ErrorBody == [error |-> [code |-> "-32000", message |-> "boom"]]

\* what a server may answer to tools/call
CallResponses ==
    {Fault("URLError"), Ok(EmptyDict, [result |-> [content |-> "done"]]),
     Ok(EmptyDict, ErrorBody)}

SchemaAB ==
    [type |-> "object",
     properties |-> [a |-> [type |-> "string"],
                     b |-> [type |-> "integer", default |-> 5]],
     required |-> <<"a">>]

\* the descriptor a server publishes for a tool name; every descriptor has a
\* name, as the protocol requires (write_tools_md reads tool['name'])
Tool(n) ==
    IF n = "t1"
    THEN [name |-> n, description |-> "first tool", inputSchema |-> SchemaAB]
    ELSE [name |-> n, description |-> "",
          inputSchema |-> [type |-> "object", properties |-> EmptyDict]]

\* the tool lists a server publishes: the runs of at most MaxTools tools that
\* start at the first or second place of t2, t1, t1, t2, t1, t1, ... (out of
\* name order, with repeats)
ToolLists ==
    {[k \in 1..n |-> Tool(IF (i + k) % 3 = 1 THEN "t2" ELSE "t1")] :
         i \in {0, 1}, n \in 0..MaxTools}

ListBodies ==
    {[result |-> [tools |-> ts]] : ts \in ToolLists} \cup {ErrorBody, EmptyDict}

ListResponses ==
    {Fault("HTTPError")} \cup {Ok(EmptyDict, b) : b \in ListBodies}

\* the answers a test harness of one client object gives to tools/list
FewListResponses ==
    {Fault("JSONDecodeError"), Ok(EmptyDict, ErrorBody), Ok(EmptyDict, [result |-> EmptyDict]),
     Ok(EmptyDict, [result |-> [tools |-> <<Tool("t1")>>]])}

-----------------------------------------------------------------------------
(* Specification Spec: one MCPClient object of either script, driven       *)
(* through any sequence of its public methods against any server.          *)

IdleMain ==
    /\ argv = <<>>
    /\ config = [order |-> <<>>, servers |-> EmptyDict]
    /\ stub = EmptyDict
    /\ HAS_YAML = FALSE
    /\ pc = "idle"
    /\ todo = <<>>
    /\ stdout = <<>>
    /\ files = EmptyDict
    /\ stderr = <<>>
    /\ writes = <<>>
    /\ locals = EmptyDict
    /\ exit_code = None

IdleConvert ==
    /\ input_schema = EmptyDict
    /\ yaml_params = EmptyDict

Init ==
    /\ script \in {"executor", "refresh"}
    /\ client = MCPClient("http://mcp")
    /\ wire = <<>>
    /\ ops = <<>>
    /\ IdleMain
    /\ IdleConvert

Record(op, r) ==
    /\ client' = r.self
    /\ wire' = wire \o r.sent
    /\ ops' = Append(ops, [op |-> op, out |-> r.out])
    /\ UNCHANGED <<script, mainVars, convVars>>

Initialize ==
    /\ Len(ops) < MaxOps
    /\ \E resp \in InitResponses :
           \E r \in {initialize(client, script, resp)} : Record("initialize", r)

CallTool ==
    /\ script = "executor"
    /\ Len(ops) < MaxOps
    /\ \E r1 \in InitResponses, r2 \in CallResponses :
           \E r \in {call_tool(client, "t1", EmptyDict, r1, r2)} : Record("call_tool", r)

ListTools ==
    /\ script = "refresh"
    /\ Len(ops) < MaxOps
    /\ \E r1 \in InitResponses, r2 \in FewListResponses :
           \E r \in {list_tools(client, r1, r2)} : Record("list_tools", r)

Next == Initialize \/ CallTool \/ ListTools

Spec == Init /\ [][Next]_vars

-----------------------------------------------------------------------------
(* Claims about one client object (Spec) *)

Method(x) == x.req.data.method

IsRpc(x) == Method(x) \in {"tools/call", "tools/list"}

\* the exchanges the step under way adds to the wire
NewExchanges == (Len(wire) + 1)..Len(wire')

Last(s) == s[Len(s)]

IsCall(o) == o.op \in {"call_tool", "list_tools"}

\* the session header of a decoded response, None when it has none
ReturnedSession(x) ==
    IF SessionHeader \in DOMAIN x.resp.headers
    THEN x.resp.headers[SessionHeader]
    ELSE None

\* C1: whatever the operations and the server's answers, a tools/call or
\* tools/list request is sent only by a client that holds a session id, and
\* carries that very id in its Mcp-Session-Id header.
C1_SessionBeforeRpc ==
    [][\A k \in NewExchanges :
          IsRpc(wire'[k]) =>
              /\ Truthy(client'.session_id)
              /\ SessionHeader \in DOMAIN wire'[k].req.headers
              /\ wire'[k].req.headers[SessionHeader] = client'.session_id
              /\ \/ client'.session_id = client.session_id
                 \/ /\ k > Len(wire) + 1
                    /\ Method(wire'[k - 1]) = "initialize"
                    /\ ReturnedSession(wire'[k - 1]) = client'.session_id]_vars

\* C1's case: a direct initialize() lost the session id the client held, and
\* the next call still sent its RPC with a session id.
C1_Witness ==
    /\ Len(ops) = 3
    /\ ops[1].op = "initialize" /\ ~ops[1].out.raised
    /\ ops[2].op = "initialize" /\ ops[2].out.raised
    /\ ops[2].out.exc = "No session ID in response"
    /\ IsCall(ops[3]) /\ ~ops[3].out.raised
    /\ IsRpc(Last(wire))

\* C2: an initialize exchange whose response is decoded leaves in session_id
\* exactly the session header of that response; when the header is absent (or
\* empty) the operation fails with "No session ID in response", and when the
\* handshake was the lazy one of call_tool / list_tools nothing is sent after
\* it; a direct initialize() that got a session id returns the body.
C2_InitializeCapturesHeader ==
    [][\A k \in NewExchanges :
          (Method(wire'[k]) = "initialize" /\ wire'[k].resp.fault = None) =>
              /\ client'.session_id = ReturnedSession(wire'[k])
              /\ ~Truthy(ReturnedSession(wire'[k])) =>
                    /\ Last(ops').out.raised
                    /\ Last(ops').out.exc = "No session ID in response"
                    /\ k = Len(wire')
              /\ Truthy(ReturnedSession(wire'[k])) /\ Last(ops').op = "initialize" =>
                    /\ ~Last(ops').out.raised
                    /\ Last(ops').out.value = wire'[k].resp.body]_vars

\* C2's case: a lazy handshake got no session header, the call failed and its
\* RPC was never sent.
C2_Witness ==
    /\ Len(ops) = 1 /\ IsCall(ops[1])
    /\ ops[1].out.raised /\ ops[1].out.exc = "No session ID in response"
    /\ Len(wire) = 1
    /\ Method(wire[1]) = "initialize"
    /\ wire[1].resp.fault = None
    /\ SessionHeader \notin DOMAIN wire[1].resp.headers
    /\ client.session_id = None

InitializeCount == Cardinality({k \in DOMAIN wire : Method(wire[k]) = "initialize"})

\* C3: a successful call on a client without a session id sends two requests,
\* initialize and then the RPC; a successful call on a client that holds one
\* sends the RPC alone, with the held id, and keeps it; and while every
\* operation so far was a successful call, at most one initialize was sent.
C3_OneHandshake ==
    /\ [][(Len(ops') = Len(ops) + 1 /\ IsCall(Last(ops')) /\ ~Last(ops').out.raised) =>
            IF Truthy(client.session_id)
            THEN /\ Len(wire') = Len(wire) + 1
                 /\ IsRpc(Last(wire'))
                 /\ Last(wire').req.headers[SessionHeader] = client.session_id
                 /\ client'.session_id = client.session_id
            ELSE /\ Len(wire') = Len(wire) + 2
                 /\ Method(wire'[Len(wire) + 1]) = "initialize"
                 /\ IsRpc(Last(wire'))
                 /\ Last(wire').req.headers[SessionHeader]
                        = ReturnedSession(wire'[Len(wire) + 1])]_vars
    /\ []((\A k \in DOMAIN ops : IsCall(ops[k]) /\ ~ops[k].out.raised)
            => /\ InitializeCount <= 1
               /\ Len(wire) = (IF ops = <<>> THEN 0 ELSE Len(ops) + 1))

\* C3's case: three successful calls on one client, four requests in all.
C3_Witness ==
    /\ Len(ops) = 3
    /\ \A k \in DOMAIN ops : IsCall(ops[k]) /\ ~ops[k].out.raised
    /\ Len(wire) = 4
    /\ InitializeCount = 1

\* C4 as stated: once session_id holds a value, no operation changes it.
C4_Original ==
    [][Truthy(client.session_id) => client'.session_id = client.session_id]_vars

\* C4 amended: call_tool and list_tools never change or clear a session id
\* the client holds; a direct initialize() whose response is decoded replaces
\* it by that response's session header (None when absent), and leaves it
\* alone when the request fails.
C4_SessionChangedOnlyByInitialize ==
    [][(Truthy(client.session_id) /\ Len(ops') = Len(ops) + 1) =>
          IF IsCall(Last(ops'))
          THEN client'.session_id = client.session_id
          ELSE /\ Len(wire') = Len(wire) + 1
               /\ client'.session_id =
                     IF Last(wire').resp.fault = None
                     THEN ReturnedSession(Last(wire'))
                     ELSE client.session_id]_vars

\* C4's case: a client holding a session id made a further call and later a
\* direct initialize() that replaced the id.
C4_Witness ==
    /\ Len(ops) = 3
    /\ IsCall(ops[1]) /\ ~ops[1].out.raised
    /\ IsCall(ops[2]) /\ ~ops[2].out.raised
    /\ ops[3].op = "initialize" /\ ~ops[3].out.raised
    /\ Truthy(client.session_id)
    /\ client.session_id # wire[3].req.headers[SessionHeader]

-----------------------------------------------------------------------------
(* refresh_tool_docs.py: rendering *)

Range(f) == {f[k] : k \in DOMAIN f}

\* A faulty variant, for comparison: `if prop.get("default")`, which drops a default of 0.
convert_schema_to_yaml_params_truthy(schema) ==
    LET props == DictGet(schema, "properties", EmptyDict)
        required == Range(DictGet(schema, "required", <<>>))
        Param(name) ==
            LET prop == props[name]
                p0 == Dict1("type", DictGet(prop, "type", "string"))
                p1 == IF "description" \in DOMAIN prop
                      THEN DictUpdate(p0, Dict1("desc", prop["description"])) ELSE p0
                p2 == IF "enum" \in DOMAIN prop
                      THEN DictUpdate(p1, Dict1("enum", prop["enum"])) ELSE p1
                p3 == IF "default" \in DOMAIN prop /\ prop["default"] # 0
                      THEN DictUpdate(p2, Dict1("default", prop["default"])) ELSE p2
            IN  IF name \in required
                THEN DictUpdate(p3, Dict1("required", TRUE)) ELSE p3
    IN  [name \in DOMAIN props |-> Param(name)]

convert_schema_to_yaml_params(schema) ==
    LET props == DictGet(schema, "properties", EmptyDict)
        required == Range(DictGet(schema, "required", <<>>))
        Param(name) ==
            LET prop == props[name]
                p0 == Dict1("type", DictGet(prop, "type", "string"))
                p1 == IF "description" \in DOMAIN prop
                      THEN DictUpdate(p0, Dict1("desc", prop["description"])) ELSE p0
                p2 == IF "enum" \in DOMAIN prop
                      THEN DictUpdate(p1, Dict1("enum", prop["enum"])) ELSE p1
                p3 == IF "default" \in DOMAIN prop
                      THEN DictUpdate(p2, Dict1("default", prop["default"])) ELSE p2
            IN  IF name \in required
                THEN DictUpdate(p3, Dict1("required", TRUE)) ELSE p3
    IN  [name \in DOMAIN props |-> Param(name)]

\* One element of write_tools_md's lines.  A code fence is kept as its info
\* string ("yaml", "json", "" for the closing fence), and the text a library
\* renders (yaml.dump, json.dumps) as the value it renders.
Line(kind, text) == [kind |-> kind, text |-> text]

Blank == Line("text", "")

\* the lines write_tools_md appends for one tool
ToolLines(tool, has_yaml) ==
    LET description == DictGet(tool, "description", "")
        schema == DictGet(tool, "inputSchema", EmptyDict)
    IN  <<Line("h2", tool["name"]), Blank>>
        \o (IF description # "" THEN <<Line("text", description), Blank>> ELSE <<>>)
        \o (IF DictGet(schema, "properties", EmptyDict) # EmptyDict
            THEN <<Line("text", "**Params:**")>>
                 \o (IF has_yaml
                     THEN <<Line("fence", "yaml"),
                            [kind |-> "yaml", yaml |-> convert_schema_to_yaml_params(schema)]>>
                     ELSE <<Line("fence", "json"), [kind |-> "json", json |-> schema]>>)
                 \o <<Line("fence", ""), Blank>>
            ELSE <<>>)

RECURSIVE AllToolLines(_, _)
AllToolLines(tools, has_yaml) ==
    IF tools = <<>> THEN <<>>
    ELSE ToolLines(Head(tools), has_yaml) \o AllToolLines(Tail(tools), has_yaml)

\* A faulty variant, for comparison: the loop stops before the last tool.
write_tools_md_short(mcp_name, tools, output_dir) ==
    [path    |-> output_dir \o "/" \o mcp_name \o ".md",
     lines   |-> <<Line("h1", mcp_name), Blank>>
                 \o AllToolLines(SubSeq(tools, 1, Len(tools) - 1), HAS_YAML),
     printed |-> [kind |-> "updated", path |-> output_dir \o "/" \o mcp_name \o ".md"]]

\* write_tools_md(): the path written, the lines written and the line printed
write_tools_md(mcp_name, tools, output_dir) ==
    [path    |-> output_dir \o "/" \o mcp_name \o ".md",
     lines   |-> <<Line("h1", mcp_name), Blank>> \o AllToolLines(tools, HAS_YAML),
     printed |-> [kind |-> "updated", path |-> output_dir \o "/" \o mcp_name \o ".md"]]

\* A faulty variant, for comparison: one client object is kept across servers.
fetch_tools_shared(mcp_url) ==
    list_tools([client EXCEPT !.base_url = mcp_url], stub[mcp_url].init, stub[mcp_url].rpc)

\* fetch_tools(): a new client per server; the server at mcp_url answers
fetch_tools(mcp_url) ==
    list_tools(MCPClient(mcp_url), stub[mcp_url].init, stub[mcp_url].rpc)

\* json.loads on the texts the command line is given
json_loads(text) ==
    IF text = "{}" THEN Return(EmptyDict)
    ELSE IF text = "{\"repo\": \"r\"}" THEN Return([repo |-> "r"])
    ELSE IF text = "[]" THEN Return(<<>>)
    ELSE Raise("JSONDecodeError")

-----------------------------------------------------------------------------
(* Specification SpecMain: one run of either script, from its main block   *)
(* to the process's exit, for any command line, configuration and servers. *)

ServerNames == <<"gamma", "alpha", "delta", "beta">>

Url(name) == "http://" \o name

\* the session id the server at a URL hands out
SidOf(url) == "sid@" \o url

\* mcp-config.json: the first n names, n up to MaxServers, in the order the
\* file lists them (which is not the alphabetical one)
Configs ==
    {[order |-> o, servers |-> [name \in Range(o) |-> [url |-> Url(name)]]] :
         o \in {SubSeq(ServerNames, 1, n) : n \in 0..MaxServers}}

Urls(cfg) == {cfg.servers[name]["url"] : name \in DOMAIN cfg.servers}

\* a server whose handshake fails never sees the RPC; one whose handshake
\* succeeds hands out its own session id
Behaviours(rpcs) ==
    {[init |-> r, rpc |-> Fault("URLError")] :
         r \in {Fault("HTTPError"), Ok(EmptyDict, InitBody),
                Ok(Dict1(SessionHeader, ""), InitBody)}}
        \cup {[init |-> Ok(Dict1(SessionHeader, "sid"), InitBody), rpc |-> r] : r \in rpcs}

ServerAt(url, b) ==
    IF b.init.fault = None /\ DictGet(b.init.headers, SessionHeader, "") # ""
    THEN [b EXCEPT !.init = Ok(Dict1(SessionHeader, SidOf(url)), InitBody)]
    ELSE b

ToolsDir == "tools"

Path(name) == ToolsDir \o "/" \o name \o ".md"

\* the tools directory before the run: empty, or a file per server left by
\* an earlier run
StaleFiles(cfg) ==
    {EmptyDict, [p \in {Path(n) : n \in DOMAIN cfg.servers} |-> <<Line("h1", "stale")>>]}

JsonTexts == {"{}", "{\"repo\": \"r\"}", "[]", "{bad", ""}

ExecArgvs ==
    LET names == {"gamma", "alpha", "ghost"}
    IN  {<<"executor.py">>}
        \cup {<<"executor.py", n>> : n \in names}
        \cup {<<"executor.py", n, "t1">> : n \in names}
        \cup {<<"executor.py", n, "t1", j>> : n \in names, j \in JsonTexts}
        \cup {<<"executor.py", n, "t1", j, "extra">> : n \in names, j \in JsonTexts}

NoClient == [base_url |-> None, session_id |-> None]

InitMain ==
    /\ script \in {"executor", "refresh"}
    /\ config \in Configs
    /\ IF script = "executor"
       THEN /\ argv \in ExecArgvs
            /\ \E b \in Behaviours(CallResponses) :
                   stub = [u \in Urls(config) |-> ServerAt(u, b)]
            /\ HAS_YAML = FALSE
            /\ files = EmptyDict
       ELSE /\ argv = <<"refresh_tool_docs.py">>
            /\ \E b \in [Urls(config) -> Behaviours(ListResponses)] :
                   stub = [u \in Urls(config) |-> ServerAt(u, b[u])]
            /\ HAS_YAML \in BOOLEAN
            /\ files \in StaleFiles(config)
    /\ client = NoClient
    /\ wire = <<>>
    /\ ops = <<>>
    /\ pc = "main"
    /\ todo = <<>>
    /\ stdout = <<>>
    /\ stderr = <<>>
    /\ writes = <<>>
    /\ locals = EmptyDict
    /\ exit_code = None
    /\ IdleConvert

\* an uncaught exception: the interpreter reports it and exits with status 1
Uncaught(e) ==
    /\ stderr' = Append(stderr, e)
    /\ exit_code' = 1
    /\ pc' = "exit"

\* executor.py lines 94-96: the argument count
ExecCheckArgs ==
    /\ script = "executor" /\ pc = "main"
    /\ IF Len(argv) # 4
       THEN /\ stdout' = Append(stdout, [kind |-> "usage"])
            /\ exit_code' = 1
            /\ pc' = "exit"
       ELSE /\ pc' = "parse"
            /\ UNCHANGED <<stdout, exit_code>>
    /\ UNCHANGED <<script, client, wire, ops, argv, config, stub, HAS_YAML, todo, files,
                   stderr, writes, locals, convVars>>

\* A faulty variant, for comparison: a parse error is swallowed and the call made with no arguments.
ExecParse_swallow ==
    /\ script = "executor" /\ pc = "parse"
    /\ \E parsed \in {json_loads(argv[4])} :
           /\ locals' = [mcp_name |-> argv[2], tool_name |-> argv[3],
                         params |-> IF parsed.raised THEN EmptyDict ELSE parsed.value]
           /\ pc' = "config"
           /\ UNCHANGED <<stderr, exit_code>>
    /\ UNCHANGED <<script, client, wire, ops, argv, config, stub, HAS_YAML, todo, stdout,
                   files, writes, convVars>>

\* executor.py lines 98-100: params = json.loads(sys.argv[3])
ExecParse ==
    /\ script = "executor" /\ pc = "parse"
    /\ \E parsed \in {json_loads(argv[4])} :
           IF parsed.raised
           THEN Uncaught(parsed.exc) /\ UNCHANGED locals
           ELSE /\ locals' = [mcp_name |-> argv[2], tool_name |-> argv[3],
                              params |-> parsed.value]
                /\ pc' = "config"
                /\ UNCHANGED <<stderr, exit_code>>
    /\ UNCHANGED <<script, client, wire, ops, argv, config, stub, HAS_YAML, todo, stdout,
                   files, writes, convVars>>

\* executor.py lines 102-103: config["mcpServers"][mcp_name]["url"]
ExecResolve ==
    /\ script = "executor" /\ pc = "config"
    /\ IF locals.mcp_name \notin DOMAIN config.servers
       THEN Uncaught("KeyError") /\ UNCHANGED locals
       ELSE /\ locals' = [mcp_name |-> locals.mcp_name, tool_name |-> locals.tool_name,
                          params |-> locals.params,
                          mcp_url |-> config.servers[locals.mcp_name]["url"]]
            /\ pc' = "call"
            /\ UNCHANGED <<stderr, exit_code>>
    /\ UNCHANGED <<script, client, wire, ops, argv, config, stub, HAS_YAML, todo, stdout,
                   files, writes, convVars>>

\* executor.py lines 105-107: the call, and the result printed
ExecCall ==
    /\ script = "executor" /\ pc = "call"
    /\ \E r \in {call_tool(MCPClient(locals.mcp_url), locals.tool_name, locals.params,
                           stub[locals.mcp_url].init, stub[locals.mcp_url].rpc)} :
           /\ client' = r.self
           /\ wire' = wire \o r.sent
           /\ IF r.out.raised
              THEN Uncaught(r.out.exc) /\ UNCHANGED stdout
              ELSE /\ stdout' = Append(stdout, [kind |-> "result", body |-> r.out.value])
                   /\ exit_code' = 0
                   /\ pc' = "exit"
                   /\ UNCHANGED stderr
    /\ UNCHANGED <<script, ops, argv, config, stub, HAS_YAML, todo, files, writes, locals,
                   convVars>>

\* refresh_tool_docs.py lines 155-157: the configuration, the tools directory
RefreshStart ==
    /\ script = "refresh" /\ pc = "main"
    /\ todo' = config.order
    /\ pc' = "loop"
    /\ UNCHANGED <<script, client, wire, ops, argv, config, stub, HAS_YAML, stdout, files,
                   stderr, writes, locals, exit_code, convVars>>

\* A faulty variant, for comparison: no try/except around a server's turn.
RefreshServer_uncaught ==
    /\ script = "refresh" /\ pc = "loop" /\ todo # <<>>
    /\ \E mcp_name \in {Head(todo)} :
       \E r \in {fetch_tools(config.servers[mcp_name]["url"])} :
           /\ client' = r.self
           /\ wire' = wire \o r.sent
           /\ IF r.out.raised
              THEN /\ Uncaught(r.out.exc)
                   /\ UNCHANGED <<files, writes, stdout, todo>>
              ELSE \E w \in {write_tools_md(mcp_name, r.out.value, ToolsDir)} :
                       /\ files' = DictUpdate(files, Dict1(w.path, w.lines))
                       /\ writes' = Append(writes, w.path)
                       /\ stdout' = Append(stdout, w.printed)
                       /\ todo' = Tail(todo)
                       /\ UNCHANGED <<pc, stderr, exit_code>>
    /\ UNCHANGED <<script, ops, argv, config, stub, HAS_YAML, locals, convVars>>

\* refresh_tool_docs.py lines 159-164: one turn of the loop over the servers
RefreshServer ==
    /\ script = "refresh" /\ pc = "loop" /\ todo # <<>>
    /\ \E mcp_name \in {Head(todo)} :
       \E r \in {fetch_tools(config.servers[mcp_name]["url"])} :
           /\ client' = r.self
           /\ wire' = wire \o r.sent
           /\ IF r.out.raised
              THEN /\ stdout' = Append(stdout, [kind |-> "error", name |-> mcp_name,
                                                exc |-> r.out.exc])
                   /\ UNCHANGED <<files, writes>>
              ELSE \E w \in {write_tools_md(mcp_name, r.out.value, ToolsDir)} :
                       /\ files' = DictUpdate(files, Dict1(w.path, w.lines))
                       /\ writes' = Append(writes, w.path)
                       /\ stdout' = Append(stdout, w.printed)
    /\ todo' = Tail(todo)
    /\ UNCHANGED <<script, ops, argv, config, stub, HAS_YAML, pc, stderr, locals,
                   exit_code, convVars>>

\* refresh_tool_docs.py line 166, and the normal exit
RefreshDone ==
    /\ script = "refresh" /\ pc = "loop" /\ todo = <<>>
    /\ stdout' = Append(stdout, [kind |-> "done"])
    /\ exit_code' = 0
    /\ pc' = "exit"
    /\ UNCHANGED <<script, client, wire, ops, argv, config, stub, HAS_YAML, todo, files,
                   stderr, writes, locals, convVars>>

NextMain ==
    \/ ExecCheckArgs \/ ExecParse \/ ExecResolve \/ ExecCall
    \/ RefreshStart \/ RefreshServer \/ RefreshDone

SpecMain == InitMain /\ [][NextMain]_vars

\* The interpreter runs a script's statements one after another and never
\* pauses for ever before the next one.
FairSpecMain == SpecMain /\ WF_vars(NextMain)

-----------------------------------------------------------------------------
(* Specification SpecConvert: convert_schema_to_yaml_params on every input *)
(* schema over a bounded set of property names.                            *)

PropNames == Range(SubSeq(<<"a", "b", "c", "d">>, 1, MaxProps))

Absent == "<absent>"

\* a property's declaration, each key present or not; a default of -1 stands
\* for no default
Prop(type, description, enum, default) ==
    LET keys == (IF type # Absent THEN {"type"} ELSE {})
                    \cup (IF description # Absent THEN {"description"} ELSE {})
                    \cup (IF enum # <<>> THEN {"enum"} ELSE {})
                    \cup (IF default # -1 THEN {"default"} ELSE {})
    IN  [k \in keys |-> CASE k = "type" -> type
                          [] k = "description" -> description
                          [] k = "enum" -> enum
                          [] k = "default" -> default]

Props ==
    {Prop(t, Absent, <<>>, f) : t \in {Absent, "string", "integer"}, f \in {-1, 0, 5}}
        \cup {Prop("string", "text", <<>>, -1), Prop("string", Absent, <<"x", "y">>, -1),
              Prop(Absent, "text", <<"x", "y">>, 0)}

\* the required lists: any of the names, in order, or a name that is no property
RequiredLists ==
    {SelectSeq(<<"a", "b", "c", "d">>, LAMBDA n : n \in S) : S \in SUBSET PropNames}
        \cup {<<"zz">>}

Schemas ==
    LET withProps == UNION {[S -> Props] : S \in SUBSET PropNames}
    IN  {[type |-> "object"]}
        \cup {[type |-> "object", properties |-> ps] : ps \in withProps}
        \cup {[type |-> "object", properties |-> ps, required |-> r] :
                  ps \in withProps, r \in RequiredLists}

InitConvert ==
    /\ input_schema \in Schemas
    /\ yaml_params = EmptyDict
    /\ script = "refresh"
    /\ client = NoClient
    /\ wire = <<>>
    /\ ops = <<>>
    /\ IdleMain

Convert ==
    /\ pc = "idle"
    /\ \E params \in {convert_schema_to_yaml_params(input_schema)} : yaml_params' = params
    /\ pc' = "converted"
    /\ UNCHANGED <<clientVars, argv, config, stub, HAS_YAML, todo, stdout, files, stderr,
                   writes, locals, exit_code, input_schema>>

NextConvert == Convert

SpecConvert == InitConvert /\ [][NextConvert]_vars

-----------------------------------------------------------------------------
(* Claims about a run of a script (SpecMain) *)

\* what the server at a URL does, read off its behaviour alone
HandshakeOk(url) ==
    /\ stub[url].init.fault = None
    /\ SessionHeader \in DOMAIN stub[url].init.headers
    /\ stub[url].init.headers[SessionHeader] # ""

ListingOk(url) ==
    /\ HandshakeOk(url)
    /\ stub[url].rpc.fault = None
    /\ "error" \notin DOMAIN stub[url].rpc.body

\* why a server's listing fails, as the error line reports it
ListingError(url) ==
    IF stub[url].init.fault # None THEN stub[url].init.fault
    ELSE IF ~HandshakeOk(url) THEN "No session ID in response"
    ELSE IF stub[url].rpc.fault # None THEN stub[url].rpc.fault
    ELSE "MCP error"

\* the tools a server's listing holds
ListedTools(url) ==
    IF "result" \in DOMAIN stub[url].rpc.body
        /\ "tools" \in DOMAIN stub[url].rpc.body["result"]
    THEN stub[url].rpc.body["result"]["tools"]
    ELSE <<>>

\* the servers the loop has dealt with, in the order of the configuration
Processed ==
    IF script = "refresh" /\ pc # "main"
    THEN SubSeq(config.order, 1, Len(config.order) - Len(todo))
    ELSE <<>>

ErrorLines(name) == {k \in DOMAIN stdout : stdout[k].kind = "error" /\ stdout[k].name = name}

UpdatedLines(name) ==
    {k \in DOMAIN stdout : stdout[k].kind = "updated" /\ stdout[k].path = Path(name)}

WritesOf(name) == {k \in DOMAIN writes : writes[k] = Path(name)}

Rendered(name) == WritesOf(name) # {} /\ UpdatedLines(name) # {}

Skipped(name) == ErrorLines(name) # {}

Headings(lines) ==
    LET hs == SelectSeq(lines, LAMBDA l : l.kind = "h2")
    IN  [k \in DOMAIN hs |-> hs[k].text]

ToolNamesOf(tools) == [k \in DOMAIN tools |-> tools[k]["name"]]

\* the files of the tools directory when the run began: those never written
\* in the run are as they were
Untouched(name) ==
    Path(name) \in DOMAIN files => files[Path(name)] = <<Line("h1", "stale")>>

\* C5 (in each state): whatever each server does, a server whose listing fails gets an error
\* line with its name and the failure, a server whose listing succeeds gets
\* its file written whatever happened to the servers before it, no exception
\* escapes, and the run does end, with every server dealt with, the final
\* line printed and status 0.
C5_EveryServerHandled ==
    script = "refresh" =>
        /\ \A k \in DOMAIN Processed :
              LET name == Processed[k]
                  url == config.servers[name]["url"]
              IN  IF ListingOk(url)
                  THEN /\ WritesOf(name) # {}
                       /\ files[Path(name)][1] = Line("h1", name)
                       /\ ErrorLines(name) = {}
                  ELSE /\ \E j \in ErrorLines(name) : stdout[j].exc = ListingError(url)
                       /\ WritesOf(name) = {}
        /\ stderr = <<>>
        /\ pc = "exit" =>
              /\ todo = <<>>
              /\ Len(Processed) = Len(config.order)
              /\ Last(stdout) = [kind |-> "done"]
              /\ exit_code = 0

\* C5, with the run's end: the above in every state, and the run of the
\* refresher reaches its exit.
C5_FailuresAreIsolated ==
    /\ []C5_EveryServerHandled
    /\ script = "refresh" => <>(pc = "exit")

\* C5's case: the first of two servers fails with an HTTP error, the second
\* lists its tools; the second's file is written and the run ends normally.
C5_Witness ==
    /\ script = "refresh" /\ pc = "exit" /\ Len(config.order) = 2
    /\ stub[config.servers[config.order[1]]["url"]].rpc.fault = "HTTPError"
    /\ HandshakeOk(config.servers[config.order[1]]["url"])
    /\ ListingOk(config.servers[config.order[2]]["url"])
    /\ ErrorLines(config.order[1]) # {}
    /\ WritesOf(config.order[2]) # {}
    /\ Last(stdout) = [kind |-> "done"]

MalformedJson == {"{bad", ""}

\* C6: executor.py sends a request only when it was given exactly three
\* arguments, the third is well-formed JSON and the server name is in the
\* configuration; with a malformed third argument or an unknown server name
\* it ends with a non-zero status on the uncaught JSONDecodeError or KeyError,
\* having sent nothing.
C6_NoRequestOnBadInput ==
    script = "executor" =>
        /\ wire # <<>> =>
              /\ Len(argv) = 4
              /\ argv[4] \notin MalformedJson
              /\ argv[2] \in DOMAIN config.servers
        /\ (pc = "exit" /\ Len(argv) # 4) =>
              /\ exit_code = 1 /\ stdout = <<[kind |-> "usage"]>> /\ wire = <<>>
        /\ (pc = "exit" /\ Len(argv) = 4 /\ argv[4] \in MalformedJson) =>
              /\ exit_code = 1 /\ stderr = <<"JSONDecodeError">> /\ wire = <<>>
        /\ (pc = "exit" /\ Len(argv) = 4 /\ argv[4] \notin MalformedJson
               /\ argv[2] \notin DOMAIN config.servers) =>
              /\ exit_code = 1 /\ stderr = <<"KeyError">> /\ wire = <<>>

\* C6's case: a configured server, a malformed third argument, exit 1 and
\* nothing sent.
C6_Witness ==
    /\ script = "executor" /\ pc = "exit"
    /\ Len(argv) = 4 /\ argv[4] = "{bad" /\ argv[2] \in DOMAIN config.servers
    /\ exit_code = 1
    /\ wire = <<>>

\* C7: an answer whose body has an error field makes the listing fail (the
\* server gets the error line "MCP error" and no file), while executor.py
\* prints that body, error included, as the call's result and exits with 0.
C7_ErrorFieldAsymmetry ==
    /\ (script = "executor" /\ pc = "exit" /\ wire # <<>>
           /\ Method(Last(wire)) = "tools/call"
           /\ Last(wire).resp.fault = None
           /\ "error" \in DOMAIN Last(wire).resp.body) =>
          /\ stderr = <<>>
          /\ exit_code = 0
          /\ stdout = <<[kind |-> "result", body |-> Last(wire).resp.body]>>
    /\ script = "refresh" =>
          \A k \in DOMAIN wire :
              (Method(wire[k]) = "tools/list" /\ wire[k].resp.fault = None
                  /\ "error" \in DOMAIN wire[k].resp.body) =>
                  \E n \in Range(Processed) :
                      /\ config.servers[n]["url"] = wire[k].req.url
                      /\ \E j \in ErrorLines(n) : stdout[j].exc = "MCP error"
                      /\ WritesOf(n) = {}
                      /\ UpdatedLines(n) = {}

\* C7's case, the invocation path: the error body was printed as the result.
C7_Witness ==
    /\ script = "executor" /\ pc = "exit"
    /\ wire # <<>> /\ Method(Last(wire)) = "tools/call"
    /\ "error" \in DOMAIN Last(wire).resp.body
    /\ stdout = <<[kind |-> "result", body |-> ErrorBody]>>
    /\ exit_code = 0

\* C8: the files written in a run are exactly one per server whose listing
\* succeeded, at tools/<server-name>.md, headed by the server's name, with one
\* section heading per listed tool, in the order listed, none omitted and
\* none added; a server that was skipped has no file written and the file it
\* may have had keeps its content.
C8_OneFilePerListedServer ==
    script = "refresh" =>
        /\ \A k \in DOMAIN Processed :
              LET name == Processed[k]
                  url == config.servers[name]["url"]
              IN  IF ListingOk(url)
                  THEN /\ Cardinality(WritesOf(name)) = 1
                       /\ files[Path(name)][1] = Line("h1", name)
                       /\ Headings(files[Path(name)]) = ToolNamesOf(ListedTools(url))
                  ELSE /\ WritesOf(name) = {}
                       /\ Untouched(name)
        /\ Range(writes) \subseteq {Path(Processed[k]) : k \in DOMAIN Processed}
        /\ \A k \in DOMAIN todo : WritesOf(todo[k]) = {} /\ Untouched(todo[k])

\* C8's case: one server listed t2 then t1 and its file has these two
\* headings in that order; another server was skipped and kept its old file.
C8_Witness ==
    /\ script = "refresh" /\ pc = "exit"
    /\ \E n \in Range(config.order) :
           /\ ToolNamesOf(ListedTools(config.servers[n]["url"])) = <<"t2", "t1">>
           /\ ListingOk(config.servers[n]["url"])
           /\ Headings(files[Path(n)]) = <<"t2", "t1">>
    /\ \E n \in Range(config.order) :
           /\ ~ListingOk(config.servers[n]["url"])
           /\ Path(n) \in DOMAIN files
           /\ WritesOf(n) = {}


\* the exchanges a server's turn makes: the handshake, and the listing if the
\* handshake gave a session id
Exchanges(name) == IF HandshakeOk(config.servers[name]["url"]) THEN 2 ELSE 1

RECURSIVE ExchangesBefore(_)
ExchangesBefore(k) ==
    IF k <= 1 THEN 0 ELSE ExchangesBefore(k - 1) + Exchanges(Processed[k - 1])

RequestsTo(url, method) ==
    {k \in DOMAIN wire : wire[k].req.url = url /\ Method(wire[k]) = method}

\* C10: the servers are dealt with one at a time in the order of the
\* configuration; each gets one initialize request, sent without a session id
\* by a client made for it, then at most one tools/list request carrying the
\* session id that very server returned, and nothing more whatever failed; each
\* server dealt with is either rendered or skipped, never both, the others are
\* still pending, and the run can always go on until it exits with no server
\* pending.
C10_OneServerAtATime ==
    script = "refresh" =>
        /\ pc # "main" => todo = SubSeq(config.order, Len(Processed) + 1, Len(config.order))
        /\ Len(wire) = ExchangesBefore(Len(Processed) + 1)
        /\ \A k \in DOMAIN Processed :
              LET name == Processed[k]
                  url == config.servers[name]["url"]
                  first == wire[ExchangesBefore(k) + 1]
              IN  /\ first.req.url = url
                  /\ Method(first) = "initialize"
                  /\ SessionHeader \notin DOMAIN first.req.headers
                  /\ first.resp = stub[url].init
                  /\ Exchanges(name) = 2 =>
                        LET second == wire[ExchangesBefore(k) + 2]
                        IN  /\ second.req.url = url
                            /\ Method(second) = "tools/list"
                            /\ second.req.headers[SessionHeader] = ReturnedSession(first)
                  /\ Cardinality(RequestsTo(url, "initialize")) = 1
                  /\ Cardinality(RequestsTo(url, "tools/list")) <= 1
                  /\ Rendered(name) # Skipped(name)
                  /\ IF stdout[k].kind = "error"
                     THEN stdout[k].name = name /\ WritesOf(name) = {}
                     ELSE stdout[k] = [kind |-> "updated", path |-> Path(name)]
        /\ \A k \in DOMAIN todo :
              /\ ~Rendered(todo[k]) /\ ~Skipped(todo[k])
              /\ RequestsTo(config.servers[todo[k]]["url"], "initialize") = {}
        /\ Len(stdout) = Len(Processed) + (IF pc = "exit" THEN 1 ELSE 0)
        /\ Processed # <<>> =>
              client.base_url = config.servers[Last(Processed)]["url"]
        /\ pc = "exit" => todo = <<>> /\ Len(Processed) = Len(config.order)
        /\ pc # "exit" => ENABLED NextMain

\* C10's case: two servers, the first rendered after two requests, the second
\* skipped after a handshake without session id; three requests in all.
C10_Witness ==
    /\ script = "refresh" /\ pc = "exit" /\ Len(config.order) = 2
    /\ Rendered(config.order[1]) /\ ~Skipped(config.order[1])
    /\ Skipped(config.order[2]) /\ ~Rendered(config.order[2])
    /\ Len(wire) = 3
    /\ Method(wire[3]) = "initialize"
    /\ wire[3].resp.fault = None
    /\ client.session_id = None

-----------------------------------------------------------------------------
(* Claim about convert_schema_to_yaml_params (SpecConvert) *)

DeclaredProps ==
    IF "properties" \in DOMAIN input_schema THEN input_schema["properties"] ELSE EmptyDict

DeclaredRequired ==
    IF "required" \in DOMAIN input_schema THEN Range(input_schema["required"]) ELSE {}

\* C9: the result has one record per declared property and no other; a record
\* has required (true) exactly for the names of the required list, default,
\* enum and desc exactly when the property declares default, enum and
\* description, with the declared values (a default of 0 included), and as
\* type the declared type or "string"; the schema a: string, b: integer with
\* default 5, required [a] gives a required and b its default 5.
C9_ParamsMirrorSchema ==
    pc = "converted" =>
        /\ DOMAIN yaml_params = DOMAIN DeclaredProps
        /\ \A n \in DOMAIN yaml_params :
              LET param == yaml_params[n]
                  prop == DeclaredProps[n]
              IN  /\ DOMAIN param \subseteq {"type", "desc", "enum", "default", "required"}
                  /\ "required" \in DOMAIN param <=> n \in DeclaredRequired
                  /\ "required" \in DOMAIN param => param["required"] = TRUE
                  /\ "default" \in DOMAIN param <=> "default" \in DOMAIN prop
                  /\ "default" \in DOMAIN param => param["default"] = prop["default"]
                  /\ "enum" \in DOMAIN param <=> "enum" \in DOMAIN prop
                  /\ "enum" \in DOMAIN param => param["enum"] = prop["enum"]
                  /\ "desc" \in DOMAIN param <=> "description" \in DOMAIN prop
                  /\ "desc" \in DOMAIN param => param["desc"] = prop["description"]
                  /\ "type" \in DOMAIN param
                  /\ param["type"] = IF "type" \in DOMAIN prop THEN prop["type"] ELSE "string"
        /\ input_schema = SchemaAB =>
              yaml_params = [a |-> [type |-> "string", required |-> TRUE],
                             b |-> [type |-> "integer", default |-> 5]]

\* C9's case: the schema of the example was converted.
C9_Witness ==
    /\ pc = "converted"
    /\ input_schema = SchemaAB
    /\ "required" \in DOMAIN yaml_params["a"]
    /\ "required" \notin DOMAIN yaml_params["b"]
    /\ yaml_params["b"]["default"] = 5

====
